---- MODULE Spec2Model ----
(***************************************************************************)
(* Model of the cache emulator of src/main.cpp: the set-associative Cache  *)
(* (constructor and access), and the CacheHierarchy with its lazily        *)
(* created private L1 caches and the shared L2 and L3.                     *)
(*                                                                         *)
(* Three specifications:                                                   *)
(*   Spec          a CacheHierarchy replaying access(address, thread_id);  *)
(*   SpecCache     one Cache, constructed from a configuration and then    *)
(*                 probed with access(address);                            *)
(*   SpecDecompose the address decomposition of Cache::access, shift/mask  *)
(*                 and division/modulo variant, applied to one address.    *)
(***************************************************************************)
EXTENDS Integers, Naturals, Sequences, FiniteSets, TLC

VARIABLES
    \* ---- CacheHierarchy (Spec) ----
    l1_caches,          \* std::map<uint64_t, Cache>: thread id -> private L1
    l2_cache,           \* shared L2
    l3_cache,           \* shared L3
    l1_size,            \* configured L1 parameters kept by the hierarchy
    l1_line_size,
    l1_associativity,
    records,            \* number of completed CacheHierarchy::access calls
    last,               \* outcome of the latest CacheHierarchy::access call
    prev,               \* outcome of the call before the latest one
    touched,            \* addresses passed to CacheHierarchy::access so far
    \* ---- single Cache (SpecCache) ----
    cache,              \* the Cache object
    cstate,             \* "none" | "ready" | "crashed" (the constructor
                        \* has no error outcome)
    trace,              \* the Cache::access calls made so far, with results
    \* ---- address decomposition (SpecDecompose) ----
    decomp              \* set index and tag of one address, by both variants

vars == << l1_caches, l2_cache, l3_cache, l1_size, l1_line_size,
           l1_associativity, records, last, prev, touched,
           cache, cstate, trace, decomp >>

hvars == << l1_caches, l2_cache, l3_cache, l1_size, l1_line_size,
            l1_associativity, records, last, prev, touched >>

cvars == << cache, cstate, trace, decomp >>

----------------------------------------------------------------------------
(* Bounds of the model *)

\* number of CacheHierarchy::access calls explored
MaxRecords == 5

\* number of Cache::access calls explored on the single cache
MaxTrace == 6

----------------------------------------------------------------------------
(* CacheLine and Cache *)

\* CacheLine() : tag(0), valid(false), last_access_time(0)
CacheLine == [tag |-> 0, valid |-> FALSE, last_access_time |-> 0]

\* std::vector<CacheLine>(associativity)
NewSet(associativity) == [w \in 1..associativity |-> CacheLine]

\* Cache() : every field zero, no sets
DefaultCache ==
    [size |-> 0, line_size |-> 0, associativity |-> 0, is_shared |-> FALSE,
     num_sets |-> 0, sets |-> << >>, access_counter |-> 0,
     hits |-> 0, misses |-> 0]

\* Cache(size_bytes, line_size_bytes, associativity, shared): the set count is
\* the truncating quotient; nothing is validated and nothing is thrown.
NewCache(size_bytes, line_size_bytes, associativity, shared) ==
    LET num_sets == size_bytes \div (line_size_bytes * associativity) IN
    [size |-> size_bytes, line_size |-> line_size_bytes,
     associativity |-> associativity, is_shared |-> shared,
     num_sets |-> num_sets,
     sets |-> [s \in 1..num_sets |-> NewSet(associativity)],
     access_counter |-> 0, hits |-> 0, misses |-> 0]

\* (uint64_t) log2(n) for n >= 1: the double is truncated, i.e. floor(log2 n)
RECURSIVE Log2(_)
Log2(n) == IF n <= 1 THEN 0 ELSE 1 + Log2(n \div 2)

\* x >> k on uint64_t values
Shr(x, k) == x \div (2 ^ k)

OffsetBits(c) == Log2(c.line_size)
IndexBits(c) == Log2(c.num_sets)

\* the mutant of SetIndex: the offset bits are not shifted out
SetIndex_NoShift(c, address) == address % (2 ^ IndexBits(c))

\* set_index = (address >> offset_bits) & ((1ULL << index_bits) - 1)
SetIndex(c, address) ==
    Shr(address, OffsetBits(c)) % (2 ^ IndexBits(c))

\* the mutant of Tag: the index bits are left in the tag
Tag_NoIndexBits(c, address) == Shr(address, OffsetBits(c))

\* tag = address >> (offset_bits + index_bits)
Tag(c, address) == Shr(address, OffsetBits(c) + IndexBits(c))

\* the mutant of HitWay: only the first line of the set is compared
HitWay_FirstLineOnly(set, tag) ==
    IF set[1].valid /\ set[1].tag = tag THEN 1 ELSE 0

\* the mutant of HitWay: the valid flag is not consulted
HitWay_IgnoreValid(set, tag) ==
    LET ws == {w \in DOMAIN set : set[w].tag = tag} IN
    IF ws = {} THEN 0 ELSE CHOOSE w \in ws : \A v \in ws : w <= v

\* first way of the set holding a valid line with this tag, 0 when none
HitWay(set, tag) ==
    LET ws == {w \in DOMAIN set : set[w].valid /\ set[w].tag = tag} IN
    IF ws = {} THEN 0 ELSE CHOOSE w \in ws : \A v \in ws : w <= v

\* the mutant of InvalidWay: the scan does not stop at the first invalid line
InvalidWay_Last(set) ==
    LET ws == {w \in DOMAIN set : ~set[w].valid} IN
    IF ws = {} THEN 0 ELSE CHOOSE w \in ws : \A v \in ws : w >= v

\* first way with valid == false, 0 when none
InvalidWay(set) ==
    LET ws == {w \in DOMAIN set : ~set[w].valid} IN
    IF ws = {} THEN 0 ELSE CHOOSE w \in ws : \A v \in ws : w <= v

\* the mutant of LruWay: the most recently used line is replaced
LruWay_MostRecent(set) ==
    CHOOSE w \in DOMAIN set :
        \A v \in DOMAIN set :
            set[w].last_access_time >= set[v].last_access_time

\* the LRU scan: '<' against the running minimum keeps the first way that
\* holds the minimum last_access_time
LruWay(set) ==
    CHOOSE w \in DOMAIN set :
        \A v \in DOMAIN set :
            \/ set[w].last_access_time < set[v].last_access_time
            \/ set[w].last_access_time = set[v].last_access_time /\ w <= v

\* replacement_line: the first invalid line, else the LRU line
VictimWay(set) ==
    IF InvalidWay(set) # 0 THEN InvalidWay(set) ELSE LruWay(set)

\* the mutant of Install: the victim keeps its old last_access_time
Install_StaleTime(line, tag, time) ==
    [tag |-> tag, valid |-> TRUE, last_access_time |-> line.last_access_time]

\* the mutant of Install: the victim gets the tag but is left invalid
Install_NotValid(line, tag, time) ==
    [tag |-> tag, valid |-> line.valid, last_access_time |-> time]

\* replacement_line->valid = true; ->tag = tag; ->last_access_time = ++counter
Install(line, tag, time) ==
    [tag |-> tag, valid |-> TRUE, last_access_time |-> time]

\* the mutant of Cache_access: the clock advances on counted calls only
Cache_access_SilentFill(c, address, count_cache) ==
    LET s    == SetIndex(c, address) + 1
        tag  == Tag(c, address)
        set  == c.sets[s]
        now  == IF count_cache THEN c.access_counter + 1 ELSE c.access_counter
        h    == HitWay(set, tag)
        v    == VictimWay(set)
    IN  IF h # 0
        THEN [cache |-> [c EXCEPT !.sets[s][h].last_access_time = now,
                                  !.access_counter = now,
                                  !.hits = IF count_cache THEN @ + 1 ELSE @],
              hit |-> TRUE]
        ELSE [cache |-> [c EXCEPT !.sets[s][v] = Install(set[v], tag, now),
                                  !.access_counter = now,
                                  !.misses = IF count_cache THEN @ + 1 ELSE @],
              hit |-> FALSE]

\* bool Cache::access(address, count_cache) on a cache with num_sets >= 1:
\* the cache after the call and the value returned
Cache_access(c, address, count_cache) ==
    LET s    == SetIndex(c, address) + 1
        tag  == Tag(c, address)
        set  == c.sets[s]
        now  == c.access_counter + 1
        h    == HitWay(set, tag)
        v    == VictimWay(set)
    IN  IF h # 0
        THEN [cache |-> [c EXCEPT !.sets[s][h].last_access_time = now,
                                  !.access_counter = now,
                                  !.hits = IF count_cache THEN @ + 1 ELSE @],
              hit |-> TRUE]
        ELSE [cache |-> [c EXCEPT !.sets[s][v] = Install(set[v], tag, now),
                                  !.access_counter = now,
                                  !.misses = IF count_cache THEN @ + 1 ELSE @],
              hit |-> FALSE]

\* the block of an address is resident: a valid line with its tag in its set
Resident(c, address) ==
    /\ c.num_sets >= 1
    /\ LET set == c.sets[SetIndex(c, address) + 1] IN
       \E w \in DOMAIN set : set[w].valid /\ set[w].tag = Tag(c, address)

----------------------------------------------------------------------------
(* CacheHierarchy *)

\* thread ids of the trace records; 0 is a legal thread id
ThreadIds == {0, 1}

\* addresses of the trace records: blocks 0, 1 (at byte offset 1) and 2
Addresses == {0, 65, 128}

\* Hierarchy configurations.  The first has power-of-two set counts (L1 1x1,
\* L2 2x1, L3 2x2 lines).  The second has the shape of the one built in main:
\* set counts that are not powers of two and an L3 smaller than the L2
\* (L1 3x1, L2 3x2, L3 1x2 lines).
HierarchyConfigs ==
    { [l1 |-> [size |-> 64,  line_size |-> 64, associativity |-> 1],
       l2 |-> [size |-> 128, line_size |-> 64, associativity |-> 1],
       l3 |-> [size |-> 256, line_size |-> 64, associativity |-> 2]],
      [l1 |-> [size |-> 192, line_size |-> 64, associativity |-> 1],
       l2 |-> [size |-> 384, line_size |-> 64, associativity |-> 2],
       l3 |-> [size |-> 128, line_size |-> 64, associativity |-> 2]] }

\* outcome record of one CacheHierarchy::access call; level is the deepest
\* level probed (0: no call yet), fresh tells that no earlier call named an
\* address of the same block
NoAccess ==
    [address |-> 0, thread_id |-> 0, level |-> 0, l1_hit |-> FALSE,
     l2_hit |-> FALSE, l3_hit |-> FALSE, fresh |-> FALSE, created |-> FALSE,
     l1_fill_hit |-> FALSE, l2_fill_hit |-> FALSE]

\* the mutant of L1HitReturns: the early return is missing
L1HitReturns_Never(l1_hit) == FALSE

\* if (l1_hit) return;
L1HitReturns(l1_hit) == l1_hit

\* the mutant of L3CountCache: every L3 probe is counted
L3CountCache_Always(thread_id) == TRUE

\* l3_cache.access(address, thread_id): the second parameter of Cache::access
\* is bool count_cache, so the thread id is converted to bool
L3CountCache(thread_id) == thread_id # 0

\* the mutant of L2FillCount: the fill of L2 is counted like a probe
L2FillCount_Counted == TRUE

\* l2_cache.access(address, false)
L2FillCount == FALSE

\* the mutant of L1FillCount: the fill of L1 is counted like a probe
L1FillCount_Counted == TRUE

\* l1_caches[thread_id].access(address, false)
L1FillCount == FALSE

\* the mutant of EnsureL1: the L1 is built anew on every call
EnsureL1_Always(l1s, thread_id, size, line_size, associativity) ==
    [t \in DOMAIN l1s \cup {thread_id} |->
        IF t = thread_id
        THEN NewCache(size, line_size, associativity, FALSE)
        ELSE l1s[t]]

\* if (l1_caches.find(thread_id) == l1_caches.end())
\*     l1_caches[thread_id] = Cache(l1_size, l1_line_size, l1_associativity, false)
EnsureL1(l1s, thread_id, size, line_size, associativity) ==
    IF thread_id \in DOMAIN l1s
    THEN l1s
    ELSE [t \in DOMAIN l1s \cup {thread_id} |->
            IF t = thread_id
            THEN NewCache(size, line_size, associativity, FALSE)
            ELSE l1s[t]]

\* void CacheHierarchy::access(address, thread_id): the three caches after the
\* call, what each probe returned and what each uncounted fill returned
Hierarchy_access(l1s, l2, l3, size, line_size, associativity, address, thread_id) ==
    LET m   == EnsureL1(l1s, thread_id, size, line_size, associativity)
        p1  == Cache_access(m[thread_id], address, TRUE)
        m1  == [m EXCEPT ![thread_id] = p1.cache]
        p2  == Cache_access(l2, address, TRUE)
        \* L2 hit: uncounted fill of L1
        f1  == Cache_access(m1[thread_id], address, L1FillCount)
        \* L2 miss: L3 probe, then fills of L2 and L1
        p3  == Cache_access(l3, address, L3CountCache(thread_id))
        f2  == Cache_access(p2.cache, address, L2FillCount)
    IN  IF L1HitReturns(p1.hit)
        THEN [l1s |-> m1, l2 |-> l2, l3 |-> l3,
              level |-> 1, l1_hit |-> p1.hit, l2_hit |-> FALSE, l3_hit |-> FALSE,
              l1_fill_hit |-> FALSE, l2_fill_hit |-> FALSE]
        ELSE IF p2.hit
        THEN [l1s |-> [m1 EXCEPT ![thread_id] = f1.cache],
              l2 |-> p2.cache, l3 |-> l3,
              level |-> 2, l1_hit |-> p1.hit, l2_hit |-> TRUE, l3_hit |-> FALSE,
              l1_fill_hit |-> f1.hit, l2_fill_hit |-> FALSE]
        ELSE [l1s |-> [m1 EXCEPT ![thread_id] = f1.cache],
              l2 |-> f2.cache, l3 |-> p3.cache,
              level |-> 3, l1_hit |-> p1.hit, l2_hit |-> FALSE, l3_hit |-> p3.hit,
              l1_fill_hit |-> f1.hit, l2_fill_hit |-> f2.hit]

\* two addresses lie in the same line-sized block of a level
SameBlock(line_size, a, b) == Shr(a, Log2(line_size)) = Shr(b, Log2(line_size))

\* no earlier call named an address of the block of this one, at any level
Fresh(address) ==
    \A b \in touched :
        /\ ~SameBlock(l1_line_size, address, b)
        /\ ~SameBlock(l2_cache.line_size, address, b)
        /\ ~SameBlock(l3_cache.line_size, address, b)

\* CacheHierarchy(num_cores, l1..., l2..., l3...): L2 and L3 are built, the L1
\* parameters are kept, the L1 map is empty
HInit ==
    /\ \E cfg \in HierarchyConfigs :
        /\ l1_size = cfg.l1.size
        /\ l1_line_size = cfg.l1.line_size
        /\ l1_associativity = cfg.l1.associativity
        /\ l2_cache = NewCache(cfg.l2.size, cfg.l2.line_size, cfg.l2.associativity, TRUE)
        /\ l3_cache = NewCache(cfg.l3.size, cfg.l3.line_size, cfg.l3.associativity, TRUE)
    /\ l1_caches = << >>
    /\ records = 0
    /\ last = NoAccess
    /\ prev = NoAccess
    /\ touched = {}

\* no address decomposed yet
NoDecomp ==
    [applied |-> FALSE, address |-> 0, set_index |-> 0, tag |-> 0,
     div_set_index |-> 0, div_tag |-> 0]

\* the single cache is not part of the hierarchy's runs
CIdle ==
    /\ cache = DefaultCache
    /\ cstate = "none"
    /\ trace = << >>
    /\ decomp = NoDecomp

Init == HInit /\ CIdle

\* one trace record: cache_hierarchy.access(entry.address, entry.thread_id)
Access(address, thread_id) ==
    /\ records < MaxRecords
    /\ LET r == Hierarchy_access(l1_caches, l2_cache, l3_cache, l1_size,
                                 l1_line_size, l1_associativity, address, thread_id)
       IN  /\ l1_caches' = r.l1s
           /\ l2_cache' = r.l2
           /\ l3_cache' = r.l3
           /\ last' = [address |-> address, thread_id |-> thread_id,
                       level |-> r.level, l1_hit |-> r.l1_hit,
                       l2_hit |-> r.l2_hit, l3_hit |-> r.l3_hit,
                       fresh |-> Fresh(address),
                       l1_fill_hit |-> r.l1_fill_hit,
                       l2_fill_hit |-> r.l2_fill_hit,
                       created |-> thread_id \notin DOMAIN l1_caches]
    /\ prev' = last
    /\ records' = records + 1
    /\ touched' = touched \cup {address}
    /\ UNCHANGED << l1_size, l1_line_size, l1_associativity >>
    /\ UNCHANGED cvars

Next == \E address \in Addresses, thread_id \in ThreadIds : Access(address, thread_id)

Spec == Init /\ [][Next]_vars

\* what print_statistics sums over the private L1 caches
RECURSIVE SumOver(_, _, _)
SumOver(f, S, field) ==
    IF S = {} THEN 0
    ELSE LET t == CHOOSE x \in S : TRUE
         IN  (IF field = "hits" THEN f[t].hits ELSE f[t].misses)
             + SumOver(f, S \ {t}, field)

l1_hits == SumOver(l1_caches, DOMAIN l1_caches, "hits")
l1_misses == SumOver(l1_caches, DOMAIN l1_caches, "misses")

----------------------------------------------------------------------------
(* Claims about the hierarchy, checked under Spec *)

\* C1: after any sequence of access calls, thread id 0 included,
\* L3.hits + L3.misses equals the L2 miss counter.
C1_L3CounterConsistency ==
    l3_cache.hits + l3_cache.misses = l2_cache.misses

\* C2: when access(a, t) is immediately followed by access(a, t), the second
\* call hits at t's L1 and is resolved there.
C2_SecondAccessHitsL1 ==
    (records >= 2 /\ prev.address = last.address
                  /\ prev.thread_id = last.thread_id)
        => (last.l1_hit /\ last.level = 1)

\* a repeated access whose first call went down to L3 and hit there
C2_Witness ==
    /\ records >= 2
    /\ prev.address = last.address /\ prev.thread_id = last.thread_id
    /\ prev.level = 3 /\ prev.l3_hit
    /\ last.l1_hit

\* C3: when access(a, t) completes, the block of a is resident in t's L1, in
\* L2 too if the L1 probe missed, and in L3 too if the L2 probe missed; a first
\* access to a fresh address misses at every level and ends resident in all.
C3_InclusiveFill ==
    last.level # 0 =>
        /\ last.thread_id \in DOMAIN l1_caches
        /\ Resident(l1_caches[last.thread_id], last.address)
        /\ ~last.l1_hit => Resident(l2_cache, last.address)
        /\ (~last.l1_hit /\ ~last.l2_hit) => Resident(l3_cache, last.address)
        /\ last.fresh =>
              /\ last.level = 3
              /\ ~last.l1_hit /\ ~last.l2_hit /\ ~last.l3_hit
              /\ Resident(l2_cache, last.address)
              /\ Resident(l3_cache, last.address)

\* a fresh address accessed after other blocks were brought in
C3_Witness ==
    /\ records >= 3
    /\ last.fresh /\ last.level = 3
    /\ Resident(l1_caches[last.thread_id], last.address)
    /\ Resident(l2_cache, last.address)
    /\ Resident(l3_cache, last.address)

\* C4: an access that hits in t's L1 leaves L2, L3 and every other L1 as they
\* were and changes one statistic only: t's L1 hit counter, by one.
C4_L1HitTouchesNothingElse ==
    [][ (records' = records + 1 /\ last'.l1_hit) =>
          LET t == last'.thread_id IN
          /\ l2_cache' = l2_cache
          /\ l3_cache' = l3_cache
          /\ DOMAIN l1_caches' = DOMAIN l1_caches
          /\ \A u \in DOMAIN l1_caches \ {t} : l1_caches'[u] = l1_caches[u]
          /\ l1_caches'[t].hits = l1_caches[t].hits + 1
          /\ l1_caches'[t].misses = l1_caches[t].misses ]_vars

\* an L1 hit while another thread owns an L1 and L2 and L3 hold statistics
C4_Witness ==
    /\ last.l1_hit /\ last.level = 1
    /\ Cardinality(DOMAIN l1_caches) = 2
    /\ l2_cache.misses >= 1 /\ l3_cache.access_counter >= 1

\* C5: after any sequence of access calls, L2.hits + L2.misses equals the L1
\* misses summed over the private L1 caches (the L2 fill counts nothing).
C5_L2CounterConsistency ==
    l2_cache.hits + l2_cache.misses = l1_misses

\* L2 has been probed with both outcomes and has been filled
C5_Witness ==
    /\ l2_cache.hits >= 1 /\ l2_cache.misses >= 2
    /\ l2_cache.access_counter > l2_cache.hits + l2_cache.misses

\* C6: after n access calls the L1 hits plus L1 misses summed over the private
\* L1 caches equal n, and each call changes exactly one of the two sums, by one.
C6_L1CounterConsistency ==
    /\ [](l1_hits + l1_misses = records)
    /\ [][ records' = records + 1 =>
             \/ l1_hits' = l1_hits + 1 /\ l1_misses' = l1_misses
             \/ l1_hits' = l1_hits /\ l1_misses' = l1_misses + 1 ]_vars

\* both L1 caches exist, L1 has hit and missed, and L1 fills have happened
C6_Witness ==
    /\ Cardinality(DOMAIN l1_caches) = 2
    /\ l1_hits >= 1 /\ l1_misses >= 2
    /\ \E t \in DOMAIN l1_caches :
          l1_caches[t].access_counter > l1_caches[t].hits + l1_caches[t].misses

----------------------------------------------------------------------------
(* A single Cache: construction, then Cache::access calls *)

\* Constructor arguments tried: 4 sets of 2 lines; 1 set of 2 lines; 3 sets
\* of 1 line (not a power of two); a capacity that is no multiple of
\* line_size * associativity (1 set of 1 line); a capacity below one set.
CacheConfigs ==
    { [size |-> 512, line_size |-> 64, associativity |-> 2],
      [size |-> 128, line_size |-> 64, associativity |-> 2],
      [size |-> 192, line_size |-> 64, associativity |-> 1],
      [size |-> 100, line_size |-> 64, associativity |-> 1],
      [size |-> 100, line_size |-> 64, associativity |-> 2] }

\* addresses probed: blocks 0, 1, 2, 4 and 5
CacheAddresses == {0, 64, 128, 256, 320}

\* the configuration is exact: capacity = num_sets * associativity * line_size
\* with at least one set
ValidConfig(c) ==
    /\ c.num_sets >= 1
    /\ c.num_sets * c.associativity * c.line_size = c.size

\* the hierarchy is not part of the single cache's runs
HIdle ==
    /\ l1_caches = << >>
    /\ l2_cache = DefaultCache
    /\ l3_cache = DefaultCache
    /\ l1_size = 0 /\ l1_line_size = 0 /\ l1_associativity = 0
    /\ records = 0
    /\ last = NoAccess
    /\ prev = NoAccess
    /\ touched = {}

CInit == HIdle /\ CIdle

\* Cache c(size, line_size, associativity, false): always returns an object
Construct(cfg) ==
    /\ cstate = "none"
    /\ cache' = NewCache(cfg.size, cfg.line_size, cfg.associativity, FALSE)
    /\ cstate' = "ready"
    /\ UNCHANGED << trace, decomp >>
    /\ UNCHANGED hvars

\* c.access(address) on a cache that has sets
Probe(address) ==
    /\ cstate = "ready"
    /\ cache.num_sets >= 1
    /\ Len(trace) < MaxTrace
    /\ LET r == Cache_access(cache, address, TRUE) IN
       /\ cache' = r.cache
       /\ trace' = Append(trace, [address |-> address, hit |-> r.hit,
                                  set_index |-> SetIndex(cache, address)])
    /\ UNCHANGED << cstate, decomp >>
    /\ UNCHANGED hvars

\* c.access(address) on a cache with num_sets == 0: log2(0) is -inf, its
\* conversion to uint64_t is undefined, and sets[set_index] indexes an empty
\* vector.  The call may crash, or read whatever lies there and return either
\* value after counting it.  (trace keeps the calls on caches with sets.)
ProbeNoSets(address) ==
    /\ cstate = "ready"
    /\ cache.num_sets = 0
    /\ cache.access_counter < MaxTrace
    /\ \/ /\ cstate' = "crashed"
          /\ UNCHANGED cache
       \/ \E hit \in BOOLEAN :
          /\ cache' = [cache EXCEPT !.hits = IF hit THEN @ + 1 ELSE @,
                                    !.misses = IF hit THEN @ ELSE @ + 1,
                                    !.access_counter = @ + 1]
          /\ UNCHANGED cstate
    /\ UNCHANGED << trace, decomp >>
    /\ UNCHANGED hvars

CNext ==
    \/ \E cfg \in CacheConfigs : Construct(cfg)
    \/ \E address \in CacheAddresses : Probe(address)
    \/ \E address \in CacheAddresses : ProbeNoSets(address)

SpecCache == CInit /\ [][CNext]_vars

----------------------------------------------------------------------------
(* Claims about a single cache, checked under SpecCache *)

\* C7: a cache whose capacity is no exact multiple of line_size * associativity,
\* or whose num_sets is 0, is rejected at construction: no such cache is ever
\* in a state where access() can be called on it.
C7_InvalidConfigRejected ==
    cstate = "ready" => ValidConfig(cache)

\* the addresses of the calls of the trace, their set indices, their results
TraceAddresses == [i \in DOMAIN trace |-> trace[i].address]
TraceSets == [i \in DOMAIN trace |-> trace[i].set_index]
TraceHits == [i \in DOMAIN trace |-> trace[i].hit]

\* the scenario: capacity 512, line 64, associativity 2, and the six accesses
C8_Scenario ==
    /\ cstate = "ready"
    /\ cache.size = 512 /\ cache.line_size = 64 /\ cache.associativity = 2
    /\ TraceAddresses = << 0, 64, 128, 256, 0, 320 >>

\* C8 as stated: the cache has 4 sets; 0, 64, 128, 256 select sets 0, 1, 2, 0
\* and miss; 0 then hits; 320 then selects set 0, misses and evicts 256 while
\* 0 stays resident.
C8_Stated ==
    C8_Scenario =>
        /\ cache.num_sets = 4
        /\ TraceSets = << 0, 1, 2, 0, 0, 0 >>
        /\ TraceHits = << FALSE, FALSE, FALSE, FALSE, TRUE, FALSE >>
        /\ ~Resident(cache, 256)
        /\ Resident(cache, 0)

\* C8 as amended: 320 selects set 1 and misses into the free line of that set;
\* nothing is evicted: 0, 64, 128, 256 and 320 are all resident afterwards.
C8_Amended ==
    C8_Scenario =>
        /\ cache.num_sets = 4
        /\ TraceSets = << 0, 1, 2, 0, 0, 1 >>
        /\ TraceHits = << FALSE, FALSE, FALSE, FALSE, TRUE, FALSE >>
        /\ \A a \in {0, 64, 128, 256, 320} : Resident(cache, a)
        /\ cache.hits = 1 /\ cache.misses = 5

\* the scenario has been replayed
C8_Witness == C8_Scenario

\* block number of an address in cache c
Block(c, address) == Shr(address, OffsetBits(c))

\* the calls of the trace that selected set S, in order
RECURSIVE SelectSet(_, _)
SelectSet(tr, S) ==
    IF tr = << >> THEN << >>
    ELSE IF Head(tr).set_index = S
         THEN << Head(tr) >> \o SelectSet(Tail(tr), S)
         ELSE SelectSet(Tail(tr), S)

\* the first A+1 calls on the set name pairwise distinct blocks and the next
\* call names the first block again
EvictionPattern(sub, A) ==
    /\ Len(sub) >= A + 2
    /\ \A i, j \in 1..(A + 1) :
          i # j => Block(cache, sub[i].address) # Block(cache, sub[j].address)
    /\ Block(cache, sub[A + 2].address) = Block(cache, sub[1].address)

\* after the pattern, the calls A+3 .. A+2+k on the set name the blocks of the
\* calls 2 .. k+1, in that order
SurvivorProbes(sub, A, k) ==
    /\ EvictionPattern(sub, A)
    /\ Len(sub) >= A + 2 + k
    /\ \A i \in 1..k :
          Block(cache, sub[A + 2 + i].address) = Block(cache, sub[1 + i].address)

\* C9: from a fresh cache, A+1 pairwise distinct blocks of one set followed by
\* the first of them again: that last access misses.
C9_CapacityEviction ==
    cstate = "ready" =>
        \A S \in 0..(cache.num_sets - 1) :
            LET sub == SelectSet(trace, S) IN
            EvictionPattern(sub, cache.associativity)
                => ~sub[cache.associativity + 2].hit

\* the pattern has been played on a set of two lines
C9_Witness ==
    /\ cstate = "ready"
    /\ cache.associativity = 2
    /\ \E S \in 0..(cache.num_sets - 1) :
          LET sub == SelectSet(trace, S) IN
          EvictionPattern(sub, 2) /\ ~sub[4].hit

\* C10 as stated: after the pattern, probing the other A blocks in insertion
\* order yields a hit for each.
C10_Stated ==
    cstate = "ready" =>
        \A S \in 0..(cache.num_sets - 1) :
            LET sub == SelectSet(trace, S)
                A == cache.associativity
            IN  \A k \in 1..A :
                    SurvivorProbes(sub, A, k) => sub[A + 2 + k].hit

\* C10 as amended: after the pattern, probing the other A blocks in insertion
\* order yields a miss for each (the re-access of the first block evicted the
\* second, and each probe evicts the block probed next).
C10_Amended ==
    cstate = "ready" =>
        \A S \in 0..(cache.num_sets - 1) :
            LET sub == SelectSet(trace, S)
                A == cache.associativity
            IN  \A k \in 1..A :
                    SurvivorProbes(sub, A, k) => ~sub[A + 2 + k].hit

\* the pattern and both survivor probes have been played on a set of two lines
C10_Witness ==
    /\ cstate = "ready"
    /\ cache.associativity = 2
    /\ \E S \in 0..(cache.num_sets - 1) :
          LET sub == SelectSet(trace, S) IN
          SurvivorProbes(sub, 2, 2) /\ ~sub[5].hit /\ ~sub[6].hit

\* the calls i < j of the trace name the same address and no call between
\* them selected the set of that address
RepeatWithoutDisturbance(i, j) ==
    /\ i < j
    /\ trace[i].address = trace[j].address
    /\ \A k \in (i + 1)..(j - 1) : trace[k].set_index # trace[i].set_index

\* C11: on a cache with sets, a probe of an address whose block is not
\* resident misses and leaves it resident, and a second probe of the same
\* address with no access to its set in between (back to back in particular)
\* hits.
C11_RepeatAccess ==
    /\ [](\A i, j \in DOMAIN trace :
            RepeatWithoutDisturbance(i, j) => trace[j].hit)
    /\ [][ Len(trace') = Len(trace) + 1 =>
             LET e == trace'[Len(trace')] IN
             /\ ~Resident(cache, e.address) => ~e.hit
             /\ Resident(cache', e.address) ]_vars

\* a miss, a probe of another set, then a hit on the first address
C11_Witness ==
    \E i, j \in DOMAIN trace :
        /\ j = i + 2
        /\ RepeatWithoutDisturbance(i, j)
        /\ ~trace[i].hit /\ trace[j].hit

\* way w is the line the replacement rule names: the first invalid line in set
\* order, or, in a set without invalid lines, the first line holding the
\* minimum last_access_time
RuleVictim(set, w) ==
    \/ /\ ~set[w].valid
       /\ \A v \in DOMAIN set : v < w => set[v].valid
    \/ /\ \A v \in DOMAIN set : set[v].valid
       /\ \A v \in DOMAIN set :
             set[w].last_access_time <= set[v].last_access_time
       /\ \A v \in DOMAIN set :
             v < w => set[v].last_access_time # set[w].last_access_time

\* number of misses among the calls of a trace
RECURSIVE MissCount(_)
MissCount(tr) ==
    IF tr = << >> THEN 0
    ELSE (IF Head(tr).hit THEN 0 ELSE 1) + MissCount(Tail(tr))

\* C12: a miss overwrites exactly one line of the selected set, the first
\* invalid line or else the first line with the minimum last_access_time, with
\* the new tag, valid and the new clock value; every other line of the cache
\* is unchanged.
C12_VictimSelection ==
    [][ (Len(trace') = Len(trace) + 1 /\ ~trace'[Len(trace')].hit) =>
          LET e   == trace'[Len(trace')]
              s   == e.set_index + 1
              set == cache.sets[s]
          IN  \E w \in DOMAIN set :
                /\ RuleVictim(set, w)
                /\ cache'.sets =
                     [cache.sets EXCEPT ![s][w] =
                        [tag |-> Tag(cache, e.address), valid |-> TRUE,
                         last_access_time |-> cache.access_counter + 1]] ]_vars

\* a set of two lines has taken three misses: two fills of invalid lines and
\* one replacement of the least recently used line
C12_Witness ==
    /\ cstate = "ready"
    /\ cache.associativity = 2
    /\ \E S \in 0..(cache.num_sets - 1) : MissCount(SelectSet(trace, S)) >= 3

----------------------------------------------------------------------------
(* Further claims about the hierarchy, checked under Spec *)

\* last_access_time of the valid line holding the block of an address
Stamp(c, address) ==
    LET set == c.sets[SetIndex(c, address) + 1]
        w   == CHOOSE w \in DOMAIN set :
                  set[w].valid /\ set[w].tag = Tag(c, address)
    IN  set[w].last_access_time

\* access_counter of thread t's L1 in the map m, 0 when t owns none yet
L1Clock(m, t) == IF t \in DOMAIN m THEN m[t].access_counter ELSE 0

\* C13: every Cache::access call, hit or miss, counted or uncounted, advances
\* the clock of its cache by exactly one and stamps the line it hit or filled
\* with the new value; no other cache's clock moves.  Per hierarchy call: the
\* caller's L1 is called once on an L1 hit and twice otherwise; L2 not at all,
\* once (L2 hit) or twice (L2 miss); L3 once on an L2 miss.
C13_PerLevelClock ==
    [][ records' = records + 1 =>
          LET t == last'.thread_id
              a == last'.address
              lv == last'.level
          IN  /\ l1_caches'[t].access_counter =
                    L1Clock(l1_caches, t) + (IF lv = 1 THEN 1 ELSE 2)
              /\ l2_cache'.access_counter =
                    l2_cache.access_counter
                       + (IF lv = 1 THEN 0 ELSE IF lv = 2 THEN 1 ELSE 2)
              /\ l3_cache'.access_counter =
                    l3_cache.access_counter + (IF lv = 3 THEN 1 ELSE 0)
              /\ \A u \in DOMAIN l1_caches \ {t} :
                    l1_caches'[u].access_counter = l1_caches[u].access_counter
              /\ Stamp(l1_caches'[t], a) = l1_caches'[t].access_counter
              /\ lv >= 2 => Stamp(l2_cache', a) = l2_cache'.access_counter
              /\ lv = 3 => Stamp(l3_cache', a) = l3_cache'.access_counter ]_vars

\* a call of thread 0 that went down to L3 (its L3 probe and both fills are
\* uncounted) while thread 1 owns an L1 with a running clock
C13_Witness ==
    /\ last.level = 3 /\ last.thread_id = 0
    /\ 1 \in DOMAIN l1_caches
    /\ l1_caches[1].access_counter >= 2
    /\ l3_cache.access_counter > l3_cache.hits + l3_cache.misses

\* no set of cache c holds two valid lines with the same tag
NoDuplicateTags(c) ==
    \A s \in DOMAIN c.sets :
        \A v, w \in DOMAIN c.sets[s] :
            (v # w /\ c.sets[s][v].valid /\ c.sets[s][w].valid)
                => c.sets[s][v].tag # c.sets[s][w].tag

\* C14: in every reachable state no set of any private L1, of L2 or of L3
\* contains two valid lines with the same tag.
C14_NoDuplicateTags ==
    /\ \A t \in DOMAIN l1_caches : NoDuplicateTags(l1_caches[t])
    /\ NoDuplicateTags(l2_cache)
    /\ NoDuplicateTags(l3_cache)

\* a set of two lines of L2 or L3 is full after probes and uncounted fills,
\* and a block held there has been probed again
C14_Witness ==
    /\ \E c \in {l2_cache, l3_cache} :
          /\ c.associativity = 2
          /\ \E s \in DOMAIN c.sets : \A w \in DOMAIN c.sets[s] : c.sets[s][w].valid
          /\ c.hits >= 1
    /\ l2_cache.access_counter > l2_cache.hits + l2_cache.misses

\* number of valid lines of cache c
ValidLines(c) ==
    Cardinality({ << s, w >> \in (DOMAIN c.sets) \X (1..c.associativity) :
                     c.sets[s][w].valid })

\* C15: access(a, t) creates an empty L1 for t only if t has none, never
\* recreates or removes an L1, and leaves every other thread's L1 unchanged;
\* the owners of an L1 afterwards are the previous owners plus t.
C15_LazyPrivateL1 ==
    [][ records' = records + 1 =>
          LET t == last'.thread_id IN
          /\ DOMAIN l1_caches' = DOMAIN l1_caches \cup {t}
          /\ \A u \in DOMAIN l1_caches \ {t} : l1_caches'[u] = l1_caches[u]
          /\ t \in DOMAIN l1_caches =>
                \* the existing L1 went on: its history is kept
                /\ l1_caches'[t].hits + l1_caches'[t].misses =
                      l1_caches[t].hits + l1_caches[t].misses + 1
                /\ l1_caches'[t].access_counter > l1_caches[t].access_counter
                /\ ValidLines(l1_caches'[t]) >= ValidLines(l1_caches[t])
          /\ t \notin DOMAIN l1_caches =>
                \* a new L1 with the configured parameters took this one call
                /\ l1_caches'[t].size = l1_size
                /\ l1_caches'[t].line_size = l1_line_size
                /\ l1_caches'[t].associativity = l1_associativity
                /\ ~l1_caches'[t].is_shared
                /\ l1_caches'[t].hits = 0 /\ l1_caches'[t].misses = 1
                /\ ValidLines(l1_caches'[t]) = 1 ]_vars

\* both threads own an L1; the previous call created one, the latest call
\* reused an existing one
C15_Witness ==
    /\ Cardinality(DOMAIN l1_caches) = 2
    /\ prev.level # 0 /\ prev.created
    /\ ~last.created
    /\ l1_caches[last.thread_id].hits + l1_caches[last.thread_id].misses >= 2

----------------------------------------------------------------------------
(* The address decomposition: shift/mask against division/modulo *)

\* largest address decomposed
MaxAddress == 63

\* largest set count configured
MaxSets == 5

\* line sizes configured: powers of two and others
LineSizes == {1, 2, 3, 4, 6, 8}

\* constructor arguments: every line size, 1 or 2 lines per set, 1..MaxSets sets
DecomposeConfigs ==
    { [size |-> l * a * n, line_size |-> l, associativity |-> a] :
        l \in LineSizes, a \in 1..2, n \in 1..MaxSets }

\* the division/modulo variant of Cache::access:
\* set_index = (address / line_size) % num_sets
DivSetIndex(c, address) == (address \div c.line_size) % c.num_sets

\* tag = address / (line_size * num_sets)
DivTag(c, address) == address \div (c.line_size * c.num_sets)

\* a constructed cache, no address decomposed yet
DInit ==
    /\ HIdle
    /\ \E cfg \in DecomposeConfigs :
          cache = NewCache(cfg.size, cfg.line_size, cfg.associativity, FALSE)
    /\ cstate = "ready"
    /\ trace = << >>
    /\ decomp = NoDecomp

\* the first statements of Cache::access, in both variants, on one address
Decompose(address) ==
    /\ cstate = "ready"
    /\ cache.num_sets >= 1
    /\ decomp' = [applied |-> TRUE, address |-> address,
                  set_index |-> SetIndex(cache, address),
                  tag |-> Tag(cache, address),
                  div_set_index |-> DivSetIndex(cache, address),
                  div_tag |-> DivTag(cache, address)]
    /\ UNCHANGED << cache, cstate, trace >>
    /\ UNCHANGED hvars

DNext == \E address \in 0..MaxAddress : Decompose(address)

SpecDecompose == DInit /\ [][DNext]_vars

\* n is an exact power of two
IsPowerOfTwo(n) == \E k \in 0..n : 2 ^ k = n

\* C16: when line_size and num_sets are exact powers of two, the set index and
\* the tag of the shift/mask decomposition equal (address / line_size) mod
\* num_sets and address / (line_size * num_sets) of the division/modulo variant.
C16_DecompositionEquivalence ==
    (decomp.applied /\ IsPowerOfTwo(cache.line_size)
                    /\ IsPowerOfTwo(cache.num_sets))
        => /\ decomp.set_index = decomp.div_set_index
           /\ decomp.tag = decomp.div_tag

\* an address with a byte offset, a set index and a tag that are all non-zero,
\* decomposed on a cache of 4 sets of lines of at least 4 bytes
C16_Witness ==
    /\ decomp.applied
    /\ IsPowerOfTwo(cache.line_size) /\ cache.line_size >= 4
    /\ cache.num_sets = 4
    /\ decomp.address % cache.line_size # 0
    /\ decomp.set_index >= 1 /\ decomp.tag >= 1
    /\ decomp.set_index = decomp.div_set_index
    /\ decomp.tag = decomp.div_tag

\* C17: for every configuration the constructor accepts with num_sets >= 1,
\* set counts that are no power of two included, the set index is below
\* num_sets and every set 0..num_sets-1 is selected by at least one address.
C17_AllSetsAddressable ==
    (decomp.applied /\ cache.num_sets >= 1) =>
        /\ \A a \in 0..MaxAddress : SetIndex(cache, a) < cache.num_sets
        /\ \A S \in 0..(cache.num_sets - 1) :
              \E a \in 0..MaxAddress : SetIndex(cache, a) = S

----------------------------------------------------------------------------
(* Inclusion between the levels, checked under Spec *)

\* block numbers of the valid lines of cache c: the tag and the set index put
\* back together
ValidBlocks(c) ==
    { c.sets[s][w].tag * (2 ^ IndexBits(c)) + (s - 1) :
        << s, w >> \in { p \in (DOMAIN c.sets) \X (1..c.associativity) :
                           c.sets[p[1]][p[2]].valid } }

\* C18 as stated: every block valid in any private L1 is valid in L2, and
\* every block valid in L2 is valid in L3.
C18_Stated ==
    /\ \A t \in DOMAIN l1_caches :
          ValidBlocks(l1_caches[t]) \subseteq ValidBlocks(l2_cache)
    /\ ValidBlocks(l2_cache) \subseteq ValidBlocks(l3_cache)

\* C18 as amended: inclusion holds for the block of the latest call that missed
\* L1: it is valid in the caller's L1 and in L2 and, if the call missed L2 too,
\* in L3.  (Older blocks may outlive their copies below: L2 and L3 evict
\* without invalidating the levels above.)
C18_Amended ==
    last.level >= 2 =>
        LET b == Block(l2_cache, last.address) IN
        /\ b \in ValidBlocks(l1_caches[last.thread_id])
        /\ b \in ValidBlocks(l2_cache)
        /\ last.level = 3 => b \in ValidBlocks(l3_cache)

\* the latest call went down to L3 while some L1 holds a block that L2 has
\* evicted
C18_Witness ==
    /\ last.level = 3
    /\ \E t \in DOMAIN l1_caches :
          ~(ValidBlocks(l1_caches[t]) \subseteq ValidBlocks(l2_cache))

----------------------------------------------------------------------------
(* The uncounted fills and the recency stamps, checked under Spec *)

\* tags and valid flags of every line of cache c
TagsAndFlags(c) ==
    [s \in DOMAIN c.sets |->
        [w \in DOMAIN c.sets[s] |->
            << c.sets[s][w].tag, c.sets[s][w].valid >>]]

\* cache `after` is cache `before` after one uncounted call that hit the block
\* of the address: the clock moved by one, that block's line carries the new
\* clock value, and nothing else differs
OnlyRestamped(before, after, address) ==
    /\ TagsAndFlags(after) = TagsAndFlags(before)
    /\ after.access_counter = before.access_counter + 1
    /\ after.hits = before.hits /\ after.misses = before.misses
    /\ Stamp(after, address) = after.access_counter
    /\ \A s \in DOMAIN before.sets : \A w \in DOMAIN before.sets[s] :
          after.sets[s][w].last_access_time # before.sets[s][w].last_access_time
              => /\ s = SetIndex(before, address) + 1
                 /\ before.sets[s][w].valid
                 /\ before.sets[s][w].tag = Tag(before, address)

\* C19: every uncounted fill (into L1 after an L2 hit, into L2 and into L1
\* after an L2 miss) finds the block resident, installed by the counted probe
\* of that cache earlier in the same call; against the cache as that probe left
\* it, the fill changes the clock and the block's last_access_time only.
C19_FillsNeverEvict ==
    [][ (records' = records + 1 /\ last'.level >= 2) =>
          LET t  == last'.thread_id
              a  == last'.address
              m  == EnsureL1(l1_caches, t, l1_size, l1_line_size,
                             l1_associativity)
              probed1 == Cache_access(m[t], a, TRUE).cache
              probed2 == Cache_access(l2_cache, a, TRUE).cache
          IN  /\ last'.l1_fill_hit
              /\ Resident(probed1, a)
              /\ OnlyRestamped(probed1, l1_caches'[t], a)
              /\ last'.level = 3 =>
                    /\ last'.l2_fill_hit
                    /\ Resident(probed2, a)
                    /\ OnlyRestamped(probed2, l2_cache', a) ]_vars

\* a call that missed L2 and filled L2 and L1, in a hierarchy where the
\* caller's L1 has missed before and L2 has served a hit
C19_Witness ==
    /\ last.level = 3
    /\ last.l1_fill_hit /\ last.l2_fill_hit
    /\ l1_caches[last.thread_id].misses >= 2
    /\ l2_cache.hits >= 1

\* positions << set, way >> of the valid lines of cache c
ValidPositions(c) ==
    { p \in (DOMAIN c.sets) \X (1..c.associativity) : c.sets[p[1]][p[2]].valid }

\* in cache c the valid lines carry pairwise distinct stamps between 1 and the
\* clock, exactly one of them carries the clock value once a call was made,
\* and every full set has exactly one line with the minimum stamp
UniqueStamps(c) ==
    /\ \A p, q \in ValidPositions(c) :
          p # q => c.sets[p[1]][p[2]].last_access_time
                      # c.sets[q[1]][q[2]].last_access_time
    /\ \A p \in ValidPositions(c) :
          c.sets[p[1]][p[2]].last_access_time \in 1..c.access_counter
    /\ c.access_counter >= 1 =>
          Cardinality({ p \in ValidPositions(c) :
                          c.sets[p[1]][p[2]].last_access_time
                             = c.access_counter }) = 1
    /\ \A s \in DOMAIN c.sets :
          (\A w \in DOMAIN c.sets[s] : c.sets[s][w].valid) =>
              Cardinality({ w \in DOMAIN c.sets[s] :
                              \A v \in DOMAIN c.sets[s] :
                                  c.sets[s][w].last_access_time
                                     <= c.sets[s][v].last_access_time }) = 1

\* C20: in every reachable state of each cache the valid lines have pairwise
\* distinct last_access_time values between 1 and the clock, the line stamped
\* with the clock value is the one touched by the latest call on that cache,
\* and the LRU victim of a full set is uniquely determined.
C20_UniqueStamps ==
    /\ \A t \in DOMAIN l1_caches : UniqueStamps(l1_caches[t])
    /\ UniqueStamps(l2_cache)
    /\ UniqueStamps(l3_cache)
    /\ last.level >= 1 =>
          Stamp(l1_caches[last.thread_id], last.address)
              = l1_caches[last.thread_id].access_counter
    /\ last.level >= 2 =>
          Stamp(l2_cache, last.address) = l2_cache.access_counter
    /\ last.level = 3 =>
          Stamp(l3_cache, last.address) = l3_cache.access_counter

\* a cache with a full set of two lines after a replacement there, probes and
\* fills having stamped lines in every level
C20_Witness ==
    /\ \E c \in {l2_cache, l3_cache} :
          /\ c.associativity = 2
          /\ \E s \in DOMAIN c.sets : \A w \in DOMAIN c.sets[s] : c.sets[s][w].valid
          /\ c.access_counter >= 3
    /\ Cardinality(ValidPositions(l2_cache)) >= 2
    /\ Cardinality(DOMAIN l1_caches) = 2
    /\ last.level = 1

====
